---- MODULE Spec2Model ----
(***************************************************************************)
(* Model of convert.py: the tweet archive -> markdown pipeline.            *)
(*   main: ingest -> build_graph -> classify_tweets -> build_url_map ->    *)
(*         build_media_map -> build_twittr_url_replacements ->             *)
(*         asyncio.gather(convert_tweet for every stored tweet)            *)
(***************************************************************************)
EXTENDS Integers, Sequences, FiniteSets, TLC

VARIABLES
    tweets_data,   \* main: the loaded input, a sequence of tweet records
    tweet_map,     \* main: id -> tweet record (input fields and derived fields)
    order,         \* insertion order of tweet_map's keys (a dict iterates in it)
    reply_graph,   \* nx.DiGraph: [nodes, edges], edges in insertion order
    pc,            \* position of main
    idx,           \* index of the running for-loop over tweet_map
    walk,          \* find_thread_root: the ids tweet_id has taken, oldest first
    error,         \* the exception that ended the run ("" while none)
    tasks,         \* id -> state of the convert_tweet coroutine of that tweet
    docs,          \* the output tree: content_filepath -> the unit that wrote it
    sem,           \* ModelAPI.semaphore: requests holding it
    api,           \* the ModelAPI object: [available, max_reqs]
    probes,        \* what build_twittr_url_replacements asked of the network
    key_order,     \* the order in which this process iterates a set of short links
    stats          \* main's totals: mal_formed, download_failed, api_failed

vars == <<tweets_data, tweet_map, order, reply_graph, pc, idx, walk, error, tasks, docs,
          sem, api, probes, key_order, stats>>

---------------------------------------------------------------------------
(* Bounds of the model *)

MaxPosts == 3

---------------------------------------------------------------------------
(* Text.  A string is a sequence of words; adjacent words are separated by  *)
(* one blank.  WS is extra white space, PARA the "\n\n" paragraph break.    *)

WS == " "
PARA == "\n\n"
DOTS == "..."
Handles == {"@bob"}
IsSpace(w) == w \in {WS, PARA}

\* the one element of a singleton.  Only({f(x) : x \in {e}}) is f(e) with e
\* computed once, however often f reads x
Only(S) == CHOOSE x \in S : TRUE

RECURSIVE lstrip(_)
lstrip(text) ==
    Only({IF s # <<>> /\ IsSpace(Head(s)) THEN lstrip(Tail(s)) ELSE s : s \in {text}})

RECURSIVE rstrip(_)
rstrip(text) ==
    Only({IF s # <<>> /\ IsSpace(s[Len(s)]) THEN rstrip(SubSeq(s, 1, Len(s) - 1)) ELSE s :
          s \in {text}})

strip(s) == rstrip(lstrip(s))

\* text.startswith("RT @")
startswith_RT(text) == Len(text) >= 2 /\ text[1] = "RT" /\ text[2] \in Handles

Range(s) == {s[i] : i \in 1..Len(s)}

---------------------------------------------------------------------------
(* Python dicts: a sequence of <<key, value>> in insertion order.           *)

Keys(d) == {d[i][1] : i \in 1..Len(d)}
Has(d, k) == k \in Keys(d)
Get(d, k) == d[CHOOSE i \in 1..Len(d) : d[i][1] = k][2]
Put(dict, k, v) ==
    Only({IF Has(d, k) THEN [i \in 1..Len(d) |-> IF d[i][1] = k THEN <<k, v>> ELSE d[i]]
          ELSE Append(d, <<k, v>>) :
          d \in {dict}})

---------------------------------------------------------------------------
(* Time.  created_at is the source's "Tue Feb 04 18:34:08 +0000 2025", kept *)
(* as [fmt |-> "twitter", min, sec]; a datetime is a number of seconds.     *)

SecondsPerMinute == 60

convert_to_utc(dt_str) == dt_str.min * SecondsPerMinute + dt_str.sec

\* datetime.isoformat(): '2025-02-05T02:34:08+00:00'
isoformat(dt) == [fmt |-> "iso", min |-> dt \div SecondsPerMinute, sec |-> dt % SecondsPerMinute]

\* strftime('%Y%m%d%H%M'): the minute, the seconds dropped
generate_storage_name(tweet) ==
    [fmt |-> "name", min |-> convert_to_utc(tweet.created_at) \div SecondsPerMinute]

---------------------------------------------------------------------------
(* The reply graph *)

EmptyGraph == [nodes |-> {}, edges |-> <<>>]

predecessors(g, n) == {e[1] : e \in {x \in Range(g.edges) : x[2] = n}}

\* predecessors[0]: a tweet has one in_reply_to_status_id_str, so one parent
first_predecessor(g, n) == CHOOSE p \in predecessors(g, n) : TRUE

\* the children of n, in the order their edges were added
successors(g, n) == SelectSeq(g.edges, LAMBDA e : e[1] = n)

RECURSIVE dfs_visit(_, _, _)
RECURSIVE dfs_children(_, _, _)
dfs_visit(g, n, out) ==
    IF n \in Range(out) THEN out ELSE dfs_children(g, successors(g, n), Append(out, n))
dfs_children(g, es, out) ==
    IF es = <<>> THEN out ELSE dfs_children(g, Tail(es), dfs_visit(g, Head(es)[2], out))

dfs_preorder_nodes(g, source) == dfs_visit(g, source, <<>>)

\* sorted(tweets, key=lambda x: x[1]) on (id, datetime) pairs: stable
RECURSIVE insert_sorted(_, _)
insert_sorted(s, x) ==
    IF s = <<>> THEN <<x>>
    ELSE IF s[Len(s)][2] <= x[2] THEN Append(s, x)
    ELSE Append(insert_sorted(SubSeq(s, 1, Len(s) - 1), x), s[Len(s)])

RECURSIVE sorted(_)
sorted(s) ==
    IF s = <<>> THEN <<>>
    ELSE insert_sorted(sorted(SubSeq(s, 1, Len(s) - 1)), s[Len(s)])

\* the traversal order kept: line 86 without sorted()
get_thread_sequence_unsorted(root_id, tm, g) == dfs_preorder_nodes(g, root_id)

get_thread_sequence(root_id, tm, g) ==
    LET nodes == dfs_preorder_nodes(g, root_id)
        tweets == [i \in 1..Len(nodes) |-> <<nodes[i], convert_to_utc(tm[nodes[i]].created_at)>>]
        srt == sorted(tweets)
    IN  [i \in 1..Len(srt) |-> srt[i][1]]

\* find_thread_root on a graph where the walk is known to end (fuel = the nodes)
RECURSIVE find_root_from(_, _, _)
find_root_from(g, n, fuel) ==
    IF predecessors(g, n) = {} \/ fuel = 0 THEN n
    ELSE find_root_from(g, first_predecessor(g, n), fuel - 1)

---------------------------------------------------------------------------
(* The tweet records *)

Me == "me"                    \* args.user_id
Unset == <<"<unset>">>        \* a key the record does not hold yet
NoId == 0                     \* "in_reply_to_status_id_str" not in tweet

\* the record main stores for an input item: no derived field is set yet
Stored(item) ==
    [id_str |-> item.id_str, created_at |-> item.created_at, full_text |-> item.full_text,
     in_reply_to_status_id_str |-> item.in_reply_to_status_id_str,
     in_reply_to_user_id |-> item.in_reply_to_user_id,
     in_reply_to_screen_name |-> item.in_reply_to_screen_name,
     urls |-> item.urls, media |-> item.media,
     type |-> "", is_thread |-> FALSE, mark_down |-> Unset,
     url_map |-> <<>>, media_map |-> <<>>, replacements |-> <<>>]

Item(id, at, text, reply_to, reply_user, screen_name, urls, media) ==
    [id_str |-> id, created_at |-> at, full_text |-> text,
     in_reply_to_status_id_str |-> reply_to, in_reply_to_user_id |-> reply_user,
     in_reply_to_screen_name |-> screen_name, urls |-> urls, media |-> media]

At(m, s) == [fmt |-> "twitter", min |-> m, sec |-> s]

---------------------------------------------------------------------------
(* main, lines 653-661: the tweet map *)

Abort(exc) ==
    /\ pc' = "aborted"
    /\ error' = exc

Ids(data) == {data[i].id_str : i \in 1..Len(data)}

Ingest ==
    /\ pc = "ingest"
    /\ IF \E i, j \in 1..Len(tweets_data) : i < j /\ tweets_data[i].id_str = tweets_data[j].id_str
       THEN \* assert tweet_id not in tweet_map
            /\ Abort("AssertionError: duplicate id")
            /\ UNCHANGED <<tweet_map, order>>
       ELSE /\ tweet_map' = [id \in Ids(tweets_data) |->
                   Stored(tweets_data[CHOOSE i \in 1..Len(tweets_data) : tweets_data[i].id_str = id])]
            /\ order' = [i \in 1..Len(tweets_data) |-> tweets_data[i].id_str]
            /\ pc' = "build_graph"
            /\ UNCHANGED error
    /\ UNCHANGED <<tweets_data, reply_graph, idx, walk, tasks, docs, sem, api, probes, key_order, stats>>

---------------------------------------------------------------------------
(* build_graph, lines 167-179 *)

\* an edge for every reply, whether its parent is stored or not
replies_to_any(tm, from_tweet_id) == from_tweet_id # NoId

\* line 172: if from_tweet_id and from_tweet_id in tweet_map
replies_to_stored(tm, from_tweet_id) == from_tweet_id # NoId /\ from_tweet_id \in DOMAIN tm

\* only the reply is flagged
flag_reply(tm, from_tweet_id, tweet_id) == [tm EXCEPT ![tweet_id].is_thread = TRUE]

\* lines 178-179
flag_both(tm, from_tweet_id, tweet_id) ==
    [tm EXCEPT ![tweet_id].is_thread = TRUE, ![from_tweet_id].is_thread = TRUE]

\* one iteration of the loop: st = [g, tm], for the tweet tweet_id
build_graph_step(st, tweet_id, user_id) ==
    LET tweet == st.tm[tweet_id]
        from_tweet_id == tweet.in_reply_to_status_id_str
        g1 == [st.g EXCEPT !.nodes = @ \cup {tweet_id}]
    IN  IF replies_to_stored(st.tm, from_tweet_id)
        THEN [g  |-> [nodes |-> g1.nodes \cup {from_tweet_id},
                      edges |-> IF <<from_tweet_id, tweet_id>> \in Range(g1.edges)
                                THEN g1.edges
                                ELSE Append(g1.edges, <<from_tweet_id, tweet_id>>)],
              tm |-> IF tweet.in_reply_to_user_id = user_id
                     THEN flag_both(st.tm, from_tweet_id, tweet_id)
                     ELSE st.tm]
        ELSE [g |-> g1, tm |-> st.tm]

RECURSIVE build_graph_loop(_, _, _)
build_graph_loop(st, ids, user_id) ==
    IF ids = <<>> THEN st
    ELSE build_graph_loop(build_graph_step(st, Head(ids), user_id), Tail(ids), user_id)

BuildGraph ==
    /\ pc = "build_graph"
    /\ LET st == build_graph_loop([g |-> reply_graph, tm |-> tweet_map], order, Me)
       IN  /\ reply_graph' = st.g
           /\ tweet_map' = st.tm
    /\ pc' = "classify1"
    /\ idx' = 1
    /\ UNCHANGED <<tweets_data, order, walk, error, tasks, docs, sem, api, probes, key_order, stats>>

---------------------------------------------------------------------------
(* classify_tweets, lines 127-161 *)

\* the reply test put before the retweet test
first_pass_type_reply_first(tweet) ==
    LET text == strip(tweet.full_text)
    IN  IF tweet.in_reply_to_status_id_str # NoId THEN "Reply"
        ELSE IF startswith_RT(text) THEN "Retweet"
        ELSE "Post"

\* lines 130-143: the first pass on one tweet
first_pass_type(tweet) ==
    LET text == strip(tweet.full_text)
    IN  IF startswith_RT(text) THEN "Retweet"
        ELSE IF tweet.in_reply_to_status_id_str # NoId THEN "Reply"
        ELSE "Post"

ClassifyFirstPass ==
    /\ pc = "classify1"
    /\ IF idx <= Len(order)
       THEN /\ tweet_map' = [tweet_map EXCEPT ![order[idx]].type = first_pass_type(tweet_map[order[idx]])]
            /\ idx' = idx + 1
            /\ pc' = pc
       ELSE /\ idx' = 1
            /\ pc' = "classify2"
            /\ UNCHANGED tweet_map
    /\ UNCHANGED <<tweets_data, order, reply_graph, walk, error, tasks, docs, sem, api, probes, key_order, stats>>

\* lines 146-150: the loop head of the second pass; a candidate starts the
\* walk to its root, the others are skipped; after the last tweet main goes on
PromoteBegin ==
    /\ pc = "classify2"
    /\ IF idx > Len(order)
       THEN /\ pc' = "resolve"
            /\ UNCHANGED <<idx, walk>>
       ELSE IF tweet_map[order[idx]].is_thread
       THEN /\ walk' = <<order[idx]>>
            /\ pc' = "find_thread_root"
            /\ UNCHANGED idx
       ELSE /\ idx' = idx + 1
            /\ UNCHANGED <<pc, walk>>
    /\ UNCHANGED <<tweets_data, tweet_map, order, reply_graph, error, tasks, docs, sem, api, probes, key_order, stats>>

\* find_thread_root, lines 77-82: one iteration of `while True`
FindThreadRootStep ==
    /\ pc = "find_thread_root"
    /\ Len(walk) <= Len(order)          \* the model follows a walk one lap round a cycle
    /\ LET tweet_id == walk[Len(walk)]
       IN  IF predecessors(reply_graph, tweet_id) = {}
           THEN /\ pc' = "promote"       \* return tweet_id
                /\ UNCHANGED walk
           ELSE /\ walk' = Append(walk, first_predecessor(reply_graph, tweet_id))
                /\ UNCHANGED pc
    /\ UNCHANGED <<tweets_data, tweet_map, order, reply_graph, idx, error, tasks, docs, sem, api, probes, key_order, stats>>

\* lines 151-161 with root_id in hand: the types of the chain after promotion
promote_chain(tm, sequence) ==
    [t \in DOMAIN tm |-> IF t \in Range(sequence) THEN [tm[t] EXCEPT !.type = "Thread"] ELSE tm[t]]

\* line 153 left out: any root is promoted
root_is_any(tweet) == TRUE

\* line 153
root_is_post(tweet) == tweet.type = "Post"

PromoteChain ==
    /\ pc = "promote"
    /\ LET tweet_id == order[idx]
           root_id == walk[Len(walk)]
           sequence == get_thread_sequence(root_id, tweet_map, reply_graph)
       IN  IF root_id # tweet_id \/ ~root_is_post(tweet_map[tweet_id])
           THEN /\ pc' = "classify2"
                /\ idx' = idx + 1
                /\ UNCHANGED <<tweet_map, error>>
           ELSE IF \E t \in Range(sequence) : ~tweet_map[t].is_thread
           THEN \* line 157 reads tweet_map[t]["is_thread"], a key only build_graph sets
                /\ Abort("KeyError: is_thread")
                /\ UNCHANGED <<tweet_map, idx>>
           ELSE IF Len(sequence) <= 1
           THEN /\ Abort("AssertionError: Thread has only one tweet")
                /\ UNCHANGED <<tweet_map, idx>>
           ELSE /\ tweet_map' = promote_chain(tweet_map, sequence)
                /\ pc' = "classify2"
                /\ idx' = idx + 1
                /\ UNCHANGED error
    /\ walk' = <<>>
    /\ UNCHANGED <<tweets_data, order, reply_graph, tasks, docs, sem, api, probes, key_order, stats>>

---------------------------------------------------------------------------
(* build_url_map, build_media_map, build_twittr_url_replacements            *)

ShortLinks == {"https://t.co/a", "https://t.co/b", "https://t.co/ab"}

\* re.findall(r"https?://t\.co/[\w\d]+", text), in the order of the text
extract_twitter_urls(text) == SelectSeq(text, LAMBDA w : w \in ShortLinks)

\* build_url_map, lines 220-230: url -> expanded_url, a later entity overwriting
RECURSIVE url_map_of(_, _)
url_map_of(urls, m) ==
    IF urls = <<>> THEN m
    ELSE url_map_of(Tail(urls), Put(m, Head(urls).url, Head(urls).expanded_url))

\* build_media_map, lines 238-242: url -> media_url_https
RECURSIVE media_map_of(_, _)
media_map_of(media, m) ==
    IF media = <<>> THEN m
    ELSE media_map_of(Tail(media), Put(m, Head(media).url, Head(media).media_url_https))

\* id_from_url: the path segment after the host
id_from_url(url) ==
    CASE url = "https://t.co/a" -> "a"
      [] url = "https://t.co/b" -> "b"
      [] url = "https://t.co/ab" -> "ab"
      [] OTHER -> ""

\* os.path.splitext(urlparse(expanded).path)[-1]
splitext(expanded) ==
    CASE expanded = "https://pbs.example/m.jpg" -> ".jpg"
      [] expanded = "https://pbs.example/n.png" -> ".png"
      [] OTHER -> ""

\* lines 285-300 for one url of the text; probed is what get_redirected_url gave
replacement_for(tweet, url, probed) ==
    IF Has(tweet.url_map, url) THEN [expanded |-> Get(tweet.url_map, url)]
    ELSE IF Has(tweet.media_map, url)
    THEN [expanded |-> Get(tweet.media_map, url),
          media_filename |-> id_from_url(url) \o splitext(Get(tweet.media_map, url)),
          image_alt |-> ""]
    ELSE [expanded |-> probed]

RECURSIVE replacements_of(_, _, _, _)
replacements_of(tweet, urls, probe, out) ==
    IF urls = <<>> THEN out
    ELSE replacements_of(tweet, Tail(urls), probe,
                         Put(out, Head(urls), replacement_for(tweet, Head(urls), probe[Head(urls)])))

Final == "https://final.example/page"

\* what the network does with a HEAD and with a GET of a url: it leads to the
\* final url, with a status below 400 or (error status) of 400 and more, or
\* requests raises a RequestException
Answers == {"final", "error status", "transport error"}
Network == [head : Answers, get : Answers]

\* get_redirected_url, lines 265-278: the requests it made and what it returned
get_redirected_url(url, net) ==
    IF net.head = "transport error"
    THEN [methods |-> <<"HEAD">>, url |-> url]                  \* lines 275-278
    ELSE IF net.head = "final"
    THEN [methods |-> <<"HEAD">>, url |-> Final]                \* line 274
    ELSE IF net.get = "transport error"
    THEN [methods |-> <<"HEAD", "GET">>, url |-> url]           \* lines 272, 275-278
    ELSE [methods |-> <<"HEAD", "GET">>, url |-> Final]         \* lines 272-274

\* the urls of a tweet's text that neither entity list resolves
unresolved(tweet) ==
    {u \in Range(extract_twitter_urls(tweet.full_text)) :
        /\ ~Has(url_map_of(tweet.urls, <<>>), u)
        /\ ~Has(media_map_of(tweet.media, <<>>), u)}

\* the calls of get_redirected_url the run makes: <<tweet, url>>
Unresolved(tm) == {p \in (DOMAIN tm) \X ShortLinks : p[2] \in unresolved(tm[p[1]])}

BuildReplacements ==
    /\ pc = "resolve"
    /\ \E net \in [Unresolved(tweet_map) -> Network] :
          LET asked == [p \in Unresolved(tweet_map) |->
                           LET r == get_redirected_url(p[2], net[p])
                           IN  [head |-> net[p].head, get |-> net[p].get,
                                methods |-> r.methods, url |-> r.url]]
              probe(t) == [u \in ShortLinks |->
                              IF <<t, u>> \in DOMAIN asked THEN asked[<<t, u>>].url ELSE u]
          IN  /\ probes' = asked
              /\ tweet_map' = [t \in DOMAIN tweet_map |->
                    LET with_maps == [tweet_map[t] EXCEPT
                                        !.url_map = url_map_of(tweet_map[t].urls, <<>>),
                                        !.media_map = media_map_of(tweet_map[t].media, <<>>)]
                    IN  [with_maps EXCEPT !.replacements =
                            replacements_of(with_maps, extract_twitter_urls(with_maps.full_text),
                                            probe(t), <<>>)]]
    /\ pc' = "fan_out"
    /\ UNCHANGED <<tweets_data, order, reply_graph, idx, walk, error, tasks, docs, sem,
                   api, key_order, stats>>

---------------------------------------------------------------------------
(* convert_tweet, lines 516-639: the coroutine of one tweet                 *)

NoName == [fmt |-> "none"]
NoPath == <<>>

\* a coroutine asyncio.gather has wrapped in a task and not run yet
NewTask ==
    [pc |-> "pending", retries |-> 0, calls |-> 0, valid_at |-> 0,
     mal_formed |-> 0, download_failed |-> 0, api_failed |-> 0,
     storage_name |-> NoName, frontmatter |-> NoName, content_filepath |-> NoPath,
     todo |-> <<>>, fetched |-> <<>>, exc |-> ""]

\* merge_replacements, lines 313-333.  The merged dict is filled in the order
\* in which the union set of the keys iterates: keys, a sequence of dict1's and
\* dict2's keys.  conflict: line 325 raises ValueError
entries_conflict(cdict1, cdict2) ==
    \E ckey \in DOMAIN cdict1 \cap DOMAIN cdict2 : cdict1[ckey] # cdict2[ckey]

RECURSIVE merged_in(_, _, _)
merged_in(dict1, dict2, keys) ==
    IF keys = <<>> THEN <<>>
    ELSE LET key == Head(keys)
         IN  <<<<key, IF Has(dict1, key) THEN Get(dict1, key) ELSE Get(dict2, key)>>>>
             \o merged_in(dict1, dict2, Tail(keys))

merge_replacements(dict1, dict2, keys) ==
    [conflict |-> \E key \in Keys(dict1) \cap Keys(dict2) :
                      entries_conflict(Get(dict1, key), Get(dict2, key)),
     merged |-> merged_in(dict1, dict2,
                          SelectSeq(keys, LAMBDA k : k \in Keys(dict1) \cup Keys(dict2)))]

\* lines 528-530: the fold over the sequence
RECURSIVE merge_sequence(_, _, _, _)
merge_sequence(tm, sequence, keys, acc) ==
    IF sequence = <<>> \/ acc.conflict THEN acc
    ELSE merge_sequence(tm, Tail(sequence), keys,
                        merge_replacements(acc.merged, tm[Head(sequence)].replacements, keys))

\* "\n\n".join(parts)
RECURSIVE join(_)
join(parts) ==
    IF parts = <<>> THEN <<>>
    ELSE IF Len(parts) = 1 THEN parts[1]
    ELSE parts[1] \o <<PARA>> \o join(Tail(parts))

\* tweet_shortcode, lines 478-481
tweet_shortcode(tweet_id, user_name) ==
    "{{< tweet user=\"" \o user_name \o "\" id=\"" \o ToString(tweet_id) \o "\" >}}"

\* parse_triple_dot_endings, lines 111-124: the first "..." that white space
\* and nothing but http urls follow up to the end of the text
is_url(w) == w \in ShortLinks

dots_at(text) ==
    {i \in 1..Len(text) :
        /\ text[i] = DOTS
        /\ i < Len(text)
        /\ \A j \in (i + 1)..Len(text) : IsSpace(text[j]) \/ is_url(text[j])}

parse_triple_dot_endings(text) ==
    IF dots_at(text) = {} THEN [found |-> FALSE, prefix |-> <<>>, urls |-> <<>>]
    ELSE LET i == CHOOSE k \in dots_at(text) : \A m \in dots_at(text) : k <= m
         IN  [found |-> TRUE, prefix |-> SubSeq(text, 1, i - 1),
              urls |-> SelectSeq(SubSeq(text, i + 1, Len(text)), is_url)]

RECURSIVE standalone_lines(_)
standalone_lines(urls) ==
    IF urls = <<>> THEN <<>> ELSE <<PARA, Head(urls)>> \o standalone_lines(Tail(urls))

\* lines 556-560; line 558 is no f-string, the text holds "urls[0]" as written
rewrite_truncated(mark_down) ==
    LET p == parse_triple_dot_endings(mark_down)
    IN  IF p.found /\ p.prefix # <<>>
        THEN p.prefix \o <<DOTS, "[continue reading](urls[0])">> \o standalone_lines(Tail(p.urls))
        ELSE mark_down

\* every member of a thread goes on to render
never_skipped(root_id, tweet_id) == FALSE

\* line 525: the tweet is a member of the thread, not its root
not_the_root(root_id, tweet_id) == root_id # tweet_id

\* the merged text and map are written to every tweet of the thread
written_to_thread(tm, root_id, sequence, thread_text, merged_replacements) ==
    [t \in DOMAIN tm |->
        IF t \in Range(sequence)
        THEN [tm[t] EXCEPT !.mark_down = thread_text, !.replacements = merged_replacements]
        ELSE tm[t]]

\* lines 534-536: tweet = tweet_map[root_id], its mark_down and replacements
written_to_root(tm, root_id, sequence, thread_text, merged_replacements) ==
    [tm EXCEPT ![root_id].mark_down = thread_text,
               ![root_id].replacements = merged_replacements]

\* lines 517-560, up to the call of build_frontmatter.
\* outcome: "return" (line 526), an exception, or "go on"
convert_begin(tm0, g, tweet_id, keys) ==
    LET tm == [tm0 EXCEPT ![tweet_id].mark_down = tm0[tweet_id].full_text]
        tweet == tm[tweet_id]
        go(tmx, mal) == [outcome |-> "go on", mal_formed |-> mal,
                         tm |-> [tmx EXCEPT ![tweet_id].mark_down = rewrite_truncated(@)]]
        stop(what) == [outcome |-> what, mal_formed |-> 0, tm |-> tm]
    IN  IF tweet.type = "Thread"
        THEN LET root_id == find_root_from(g, tweet_id, Cardinality(g.nodes))
                 sequence == get_thread_sequence(root_id, tm, g)
                 m == merge_sequence(tm, sequence, keys, [conflict |-> FALSE, merged |-> <<>>])
             IN  IF not_the_root(root_id, tweet_id) THEN stop("return")
                 ELSE IF m.conflict THEN stop("ValueError: Conflict")
                 ELSE IF \E t \in Range(sequence) : tm[t].mark_down = Unset
                 THEN stop("KeyError: mark_down")
                 ELSE go(written_to_root(tm, root_id, sequence,
                             join([i \in 1..Len(sequence) |-> strip(tm[sequence[i]].mark_down)]),
                             m.merged), 0)
        ELSE IF tweet.type = "Reply"
        THEN IF tweet.in_reply_to_screen_name # "" /\ tweet.in_reply_to_status_id_str # NoId
             THEN LET text == strip(tweet.mark_down)
                      rest == IF text = <<>> THEN <<>> ELSE lstrip(Tail(text))
                  IN  IF text = <<>> \/ rest = <<>>
                      THEN stop("AssertionError: First word and then rest expected")
                      ELSE IF text[1] \notin Handles
                      THEN stop("AssertionError: First word should be a handle")
                      ELSE go([tm EXCEPT ![tweet_id].mark_down =
                                  <<tweet_shortcode(tweet.in_reply_to_status_id_str,
                                                    tweet.in_reply_to_screen_name), PARA>> \o rest], 0)
             ELSE go(tm, 1)
        ELSE go(tm, 0)

---------------------------------------------------------------------------
(* build_frontmatter, lines 367-463, and the text-generation service        *)

Retries == 5                  \* line 385
max_reqs == 20                \* line 22

\* ModelAPI.__init__, lines 22-33: available when the key, the endpoint and the
\* model name are all set; the semaphore lets max_reqs requests through
ModelAPI(enabled, cap) == [available |-> enabled, max_reqs |-> cap]

\* a semaphore that is never taken
never_locked(in_flight, cap) == FALSE

\* asyncio.Semaphore.locked(): no request can take the semaphore now
locked(in_flight, cap) == in_flight >= cap

\* args.draft_before_date, line 70: the minute before which a tweet is a draft
draft_before_date == [min |-> 1]

\* args.user_name
user_name == "me_name"

\* what a request to the service can come to.  The second lines a valid
\* response can hold are SlugLines
Failures == {"exception", "status not 200", "not a mapping", "no choices",
             "no message", "one line", "short title"}
Malformed == {"choice is no object", "content is null"}
SlugLines == {"my-post.md", "my.post", "my/post?"}
Responses == Failures \cup Malformed \cup SlugLines

\* sanitize_filename, lines 304-311: the characters <>:"/\|?* are dropped
sanitize_filename(filename) ==
    CASE filename = "my/post?" -> "mypost"
      [] OTHER -> filename

\* lines 439-440
strip_md_suffix(slug) ==
    CASE slug = "my-post.md" -> "my-post"
      [] OTHER -> slug

\* line 588: re.search(r'[<>:"/\\|?*\.\n]', storage_name)
has_bad_character(name) == name.fmt = "slug" /\ name.tail \in {"my.post", "my/post?", "my-post.md"}

\* is_draft, lines 352-365
is_draft(tweet, before) ==
    IF tweet.type \notin {"Post", "Thread"} THEN TRUE
    ELSE convert_to_utc(tweet.created_at) < before.min * SecondsPerMinute

\* lines 410-433 on the value send_message returned (or the exception it raised):
\* "retry" is `continue`, "raise" an exception no `except` catches
response_outcome(response) ==
    IF response \in Failures THEN "retry"
    ELSE IF response \in Malformed THEN "raise"
    ELSE "valid"

\* lines 437-460: the frontmatter of a valid response
service_frontmatter(tweet, response) ==
    LET slug == [fmt |-> "slug", min |-> generate_storage_name(tweet).min,
                 tail |-> strip_md_suffix(sanitize_filename(response))]
    IN  [title |-> [fmt |-> "text", text |-> "A Title"], draft |-> is_draft(tweet, draft_before_date),
         date |-> isoformat(convert_to_utc(tweet.created_at)), slug |-> slug,
         is_tweet |-> TRUE, id |-> tweet.id_str, type |-> tweet.type,
         is_thread |-> tweet.is_thread]

\* lines 571-580: the frontmatter when the service gave none
fallback_frontmatter(tweet, storage_name) ==
    [title |-> isoformat(convert_to_utc(tweet.created_at)), draft |-> TRUE,
     date |-> isoformat(convert_to_utc(tweet.created_at)), slug |-> storage_name]

\* the loop test off by one
may_try_once_more(retries) == retries >= 0

\* line 386: while retries > 0
may_try(retries) == retries > 0

---------------------------------------------------------------------------
(* convert_tweet, lines 563-639: rendering.  A unit under way is            *)
(* R = [task, tweet, md, docs]: the coroutine's locals, the tweet it        *)
(* renders, tweet["mark_down"] and the output tree                          *)

\* str.replace works on characters, not on words.  A word of the model's
\* texts that holds `old` holds it at its start: Rests is what can follow
Rests == {"", "b"}
holds(word, old) == \E rest \in Rests : word = old \o rest
rest_of(word, old) == CHOOSE rest \in Rests : word = old \o rest

\* new, and the rest of the word right behind it
glued(new, rest) == SubSeq(new, 1, Len(new) - 1) \o <<new[Len(new)] \o rest>>

RECURSIVE replace(_, _, _)
\* str.replace(old, new) where old is one word and new a sequence of words
replace(text, old, new) ==
    Only({IF s = <<>> THEN <<>>
          ELSE (IF holds(Head(s), old) THEN glued(new, rest_of(Head(s), old)) ELSE <<Head(s)>>)
               \o replace(Tail(s), old, new) :
          s \in {text}})

YouTube(url) ==
    CASE url = "https://youtu.be/vid" -> "vid"
      [] OTHER -> ""

\* youtube_to_shortcode, lines 483-514, on the <url> words of the text
youtube_to_shortcode(text, url) ==
    Only({IF YouTube(url) # ""
          THEN replace(s, "<" \o url \o ">", <<"{{< youtube {" \o YouTube(url) \o "} >}}">>)
          ELSE s :
          s \in {text}})

\* lines 615-620: a url that is no media file.  The texts of the model hold no
\* "](<url>)" and no "<{{< url >}}>", which lines 617 and 619 would rewrite
link_replace(text, url, expanded_url) ==
    youtube_to_shortcode(replace(text, url, <<"<" \o expanded_url \o ">">>), expanded_url)

\* twitter_handles_to_links, lines 466-476
RECURSIVE twitter_handles_to_links(_)
twitter_handles_to_links(text) ==
    Only({IF s = <<>> THEN <<>>
          ELSE (IF Head(s) \in Handles
                THEN <<"[" \o Head(s) \o "](https://x.com/" \o Head(s) \o ")">>
                ELSE <<Head(s)>>) \o twitter_handles_to_links(Tail(s)) :
          s \in {text}})

\* post_link, lines 181-183
post_link(tweet) == "https://x.com/" \o user_name \o "/status/" \o ToString(tweet.id_str)

content_path(tweet, storage_name, file) == <<tweet.type, storage_name, file>>

\* lines 621-637: the handles, the post link, and the document is saved
finish(unit) ==
    Only({LET linked == strip(twitter_handles_to_links(R.md))
              with_link == IF linked # <<>> /\ linked[Len(linked)] = DOTS
                           THEN linked \o <<"[continue reading](" \o post_link(R.tweet) \o ")">>
                           ELSE linked \o <<PARA, "[Discussion](" \o post_link(R.tweet) \o ")">>
              mark_down == strip(with_link) \o <<"\n">>
          IN  [R EXCEPT !.md = mark_down,
                        !.docs = Put(@, R.task.content_filepath,
                                     [unit |-> R.tweet.id_str, frontmatter |-> R.task.frontmatter,
                                      body |-> mark_down]),
                        !.task.pc = "done"] :
          R \in {unit}})

\* line 601
is_media(replacement) ==
    "media_filename" \in DOMAIN replacement /\ replacement.media_filename # ""

\* lines 598-620: the loop over the replacements, up to the next download
RECURSIVE render_loop(_)
render_loop(unit) ==
    Only({IF R.task.todo = <<>> THEN finish(R)
          ELSE LET url == Head(R.task.todo)[1]
                   replacement == Head(R.task.todo)[2]
               IN  IF is_media(replacement)
                   THEN [R EXCEPT !.task.pc = "download",
                                  !.task.content_filepath =
                                      content_path(R.tweet, R.task.storage_name, "index.md")]
                   ELSE render_loop([R EXCEPT !.md = link_replace(@, url, replacement.expanded),
                                              !.task.todo = Tail(@)]) :
          R \in {unit}})

\* download_image, lines 245-257: what it returns.  fetch is what the transport
\* did: "saved", "not found", "error status" or "transport error"
download_image(fetch) ==
    CASE fetch = "saved" -> "file_path"
      [] fetch = "not found" -> "None"
      [] OTHER -> "exception"      \* line 257 returns the exception it caught

Fetches == {"saved", "not found", "error status", "transport error"}

\* line 607: `if filepath`; an exception object is true
download_succeeded(filepath) == filepath # "None"

\* lines 606-613, from the return of download_image on
after_download(unit, fetch) ==
    Only({LET url == Head(R.task.todo)[1]
              replacement == Head(R.task.todo)[2]
              filepath == download_image(fetch)
              alt(default) == IF replacement.image_alt # "" THEN replacement.image_alt ELSE default
              saved == IF fetch = "saved"
                       THEN Put(R.docs, content_path(R.tweet, R.task.storage_name,
                                                     replacement.media_filename),
                                [unit |-> R.tweet.id_str, media |-> replacement.expanded])
                       ELSE R.docs
              logged == [R EXCEPT !.docs = saved,
                                  !.task.fetched = Append(@, <<url, fetch>>),
                                  !.task.todo = Tail(@)]
          IN  render_loop(
                  IF download_succeeded(filepath)
                  THEN [logged EXCEPT !.md = replace(@, url,
                          <<PARA, "![" \o alt(replacement.expanded) \o "](" \o replacement.media_filename \o ")">>)]
                  ELSE [logged EXCEPT !.task.download_failed = @ + 1,
                                      !.md = replace(@, url,
                          <<PARA, "![" \o alt(url) \o "](" \o replacement.expanded \o ")">>)]) :
          R \in {unit}})

\* lines 567-597, from the return of build_frontmatter on; front is NoName
\* when build_frontmatter returned (None, None)
after_frontmatter(unit, front) ==
    Only({LET default_name == generate_storage_name(R.tweet)
              storage_name == IF front # NoName THEN front.slug ELSE default_name
              index_path == content_path(R.tweet, NoName, "_index.md")
              named == [R EXCEPT
                          !.task.api_failed = IF front # NoName THEN @ ELSE @ + 1,
                          !.task.storage_name = storage_name,
                          !.task.frontmatter = IF front # NoName THEN front
                                               ELSE fallback_frontmatter(R.tweet, default_name)]
          IN  IF has_bad_character(storage_name)
              THEN [named EXCEPT !.task.pc = "raised",
                                 !.task.exc = "AssertionError: Storage name has bad characters"]
              ELSE render_loop([named EXCEPT
                      !.docs = IF Has(@, index_path) THEN @
                               ELSE Put(@, index_path, [unit |-> NoId, title |-> R.tweet.type]),
                      !.task.content_filepath = content_path(R.tweet, storage_name, "md"),
                      !.task.todo = R.tweet.replacements]) :
          R \in {unit}})

---------------------------------------------------------------------------
(* main, lines 669-681: the fan-out.  asyncio.gather wraps every coroutine  *)
(* in a task; the event loop runs the tasks in the order of tweet_map, each *)
(* up to its first suspension, and then resumes them as their requests end  *)

Unit(t) == [task |-> tasks[t], tweet |-> tweet_map[t], md |-> tweet_map[t].mark_down,
            docs |-> docs]

\* the unit's locals, mark_down and documents are written back; the first
\* exception of the run is the one gather hands to main
Commit(t, tm, R) ==
    /\ tasks' = [tasks EXCEPT ![t] = R.task]
    /\ tweet_map' = [tm EXCEPT ![t].mark_down = R.md]
    /\ docs' = R.docs
    /\ error' = IF R.task.pc = "raised" /\ error = "" THEN R.task.exc ELSE error

Gather ==
    /\ pc = "fan_out"
    /\ tasks' = [t \in DOMAIN tweet_map |-> NewTask]
    /\ idx' = 1
    /\ pc' = "gather"
    /\ probes' = <<>>                  \* the resolver has returned
    /\ UNCHANGED <<tweets_data, tweet_map, order, reply_graph, walk, error, docs, sem,
                   api, key_order, stats>>

\* the first step of task t: lines 517-566, and on to the end of the
\* coroutine when nothing suspends it; keys is the order in which a set of
\* short links iterates
convert_start(t, keys) ==
    Only({LET R == [task |-> [tasks[t] EXCEPT !.mal_formed = b.mal_formed],
                    tweet |-> b.tm[t], md |-> b.tm[t].mark_down, docs |-> docs]
          IN  [tm |-> b.tm,
               unit |-> IF b.outcome = "return" THEN [R EXCEPT !.task.pc = "returned"]
                        ELSE IF b.outcome # "go on"
                        THEN [R EXCEPT !.task.pc = "raised", !.task.exc = b.outcome]
                        ELSE IF api.available
                        THEN [R EXCEPT !.task.pc = "api_send", !.task.retries = Retries]
                        ELSE after_frontmatter(R, NoName)] :
          b \in {convert_begin(tweet_map, reply_graph, t, keys)}})

ConvertStart ==
    /\ pc = "gather"
    /\ idx <= Len(order)
    /\ \E s \in {convert_start(order[idx], key_order)} : Commit(order[idx], s.tm, s.unit)
    /\ idx' = idx + 1
    /\ UNCHANGED <<tweets_data, order, reply_graph, pc, walk, sem, api, probes, key_order, stats>>

\* lines 386-403 and send_message, lines 46-47: the back-off is over (if there
\* was one), the semaphore is taken and the request sent
ApiSend(t) ==
    /\ pc = "gather"
    /\ tasks[t].pc = "api_send"
    /\ ~locked(sem, api.max_reqs)
    /\ sem' = sem + 1
    /\ tasks' = [tasks EXCEPT ![t].pc = "api_inflight", ![t].retries = @ - 1, ![t].calls = @ + 1]
    /\ UNCHANGED <<tweets_data, tweet_map, order, reply_graph, pc, idx, walk, error, docs,
                   api, probes, key_order, stats>>

\* lines 404-461: the request ended with `response`
ApiResponse(t, response) ==
    /\ pc = "gather"
    /\ idx > Len(order)
    /\ tasks[t].pc = "api_inflight"
    /\ sem' = sem - 1
    /\ LET R == Unit(t)
           outcome == response_outcome(response)
       IN  IF outcome = "raise"
           THEN Commit(t, tweet_map, [R EXCEPT !.task.pc = "raised",
                                               !.task.exc = "AttributeError: " \o response])
           ELSE IF outcome = "valid"
           THEN Commit(t, tweet_map,
                       after_frontmatter([R EXCEPT !.task.valid_at = R.task.calls],
                                         service_frontmatter(R.tweet, response)))
           ELSE IF may_try(R.task.retries)
           THEN Commit(t, tweet_map, [R EXCEPT !.task.pc = "api_send"])
           ELSE Commit(t, tweet_map, after_frontmatter(R, NoName))
    /\ UNCHANGED <<tweets_data, order, reply_graph, pc, idx, walk, api, probes, key_order, stats>>

\* lines 606-620: the download the unit waits for ended with `fetch`
DownloadDone(t, fetch) ==
    /\ pc = "gather"
    /\ idx > Len(order)
    /\ tasks[t].pc = "download"
    /\ Commit(t, tweet_map, after_download(Unit(t), fetch))
    /\ UNCHANGED <<tweets_data, order, reply_graph, pc, idx, walk, sem, api, probes,
                   key_order, stats>>

RECURSIVE sum(_)
sum(numbers) == IF numbers = <<>> THEN 0 ELSE Head(numbers) + sum(Tail(numbers))

\* what the tasks returned, in the order of the tasks
results == [i \in 1..Len(order) |-> tasks[order[i]]]

\* lines 675-681: every task returned its counters
GatherDone ==
    /\ pc = "gather"
    /\ \A t \in DOMAIN tasks : tasks[t].pc \in {"done", "returned"}
    /\ stats' = [mal_formed |-> stats.mal_formed + sum([i \in 1..Len(results) |-> results[i].mal_formed]),
                 download_failed |-> stats.download_failed + sum([i \in 1..Len(results) |-> results[i].download_failed]),
                 api_failed |-> stats.api_failed + sum([i \in 1..Len(results) |-> results[i].api_failed])]
    /\ pc' = "done"
    /\ UNCHANGED <<tweets_data, tweet_map, order, reply_graph, idx, walk, error, tasks, docs,
                   sem, api, probes, key_order>>

\* line 675: a task raised; gather hands its exception to main, the run ends
GatherRaise ==
    /\ pc = "gather"
    /\ idx > Len(order)
    /\ error # ""
    /\ pc' = "aborted"
    /\ UNCHANGED <<tweets_data, tweet_map, order, reply_graph, idx, walk, error, tasks, docs,
                   sem, api, probes, key_order, stats>>

---------------------------------------------------------------------------
(* Graph construction and classification on their own *)

\* the archives of n items, the i-th drawn from items[i]
RECURSIVE ArchivesOf(_, _)
ArchivesOf(items, n) ==
    IF n = 0 THEN {<<>>}
    ELSE {Append(a, x) : a \in ArchivesOf(items, n - 1), x \in items[n]}

Outside == MaxPosts + 1       \* the id of a tweet the archive does not hold

\* every reply structure over the stored ids: no reply, a reply to a stored
\* tweet (itself included) of mine or of somebody else, a reply out of the archive
GraphItems(i) ==
    {Item(i, At(0, i), <<"hello">>, NoId, "", "", <<>>, <<>>),
     Item(i, At(0, i), <<"hello">>, Outside, "other", "bob", <<>>, <<>>)}
    \cup
    {Item(i, At(0, i), <<"hello">>, reply_to, reply_user, "bob", <<>>, <<>>) :
        reply_to \in 1..MaxPosts, reply_user \in {Me, "other"}}

RetweetTexts == {<<"RT", "@bob", "hi">>, <<WS, "RT", "@bob", "hi">>}

\* ... and at most one tweet of the archive is a retweet
GraphArchives ==
    LET plain == ArchivesOf([i \in 1..MaxPosts |-> GraphItems(i)], MaxPosts)
    IN  plain \cup {[a EXCEPT ![k].full_text = text] :
                        a \in plain, k \in 1..MaxPosts, text \in RetweetTexts}

InitWith(archives) ==
    /\ tweets_data \in archives
    /\ tweet_map = <<>>
    /\ order = <<>>
    /\ reply_graph = EmptyGraph
    /\ pc = "ingest"
    /\ idx = 0
    /\ walk = <<>>
    /\ error = ""
    /\ tasks = <<>>
    /\ docs = <<>>
    /\ sem = 0
    /\ probes = <<>>
    /\ stats = [mal_formed |-> 0, download_failed |-> 0, api_failed |-> 0]

InitGraph ==
    /\ InitWith(GraphArchives)
    /\ api = ModelAPI(FALSE, max_reqs)
    /\ key_order = <<>>

NextGraph ==
    \/ Ingest
    \/ BuildGraph
    \/ ClassifyFirstPass
    \/ PromoteBegin
    \/ FindThreadRootStep
    \/ PromoteChain

SpecGraph == InitGraph /\ [][NextGraph]_vars

---------------------------------------------------------------------------
(* Whole runs *)

MaxUnits == 2

Word(i) == "w" \o ToString(i)

Times == {At(0, 59), At(1, 0), At(1, 1)}

\* self-authored conversations: every tweet is a root or a reply of mine to
\* another tweet of the archive, written at any of the times
ThreadItems(i) ==
    {Item(i, at, <<Word(i)>>, reply_to, IF reply_to = NoId THEN "" ELSE Me,
          IF reply_to = NoId THEN "" ELSE user_name, <<>>, <<>>) :
        at \in Times, reply_to \in {NoId} \cup (1..MaxPosts \ {i})}

ThreadArchives == ArchivesOf([i \in 1..MaxPosts |-> ThreadItems(i)], MaxPosts)

LinkA == "https://t.co/a"
LinkB == "https://t.co/b"
Picture == "https://pbs.example/m.jpg"
Page == "https://blog.example/page"
LinkAB == "https://t.co/ab"
Other == "https://blog.example/other"

\* what the entities of a tweet say of LinkA
EntityChoices ==
    {[urls |-> <<>>, media |-> <<>>],
     [urls |-> <<[url |-> LinkA, expanded_url |-> Picture]>>, media |-> <<>>],
     [urls |-> <<[url |-> LinkA, expanded_url |-> Page]>>, media |-> <<>>],
     [urls |-> <<>>, media |-> <<[url |-> LinkA, media_url_https |-> Picture]>>]}

\* a thread of two, the reply stored before its root, both holding LinkA
MergeArchives ==
    {<<Item(1, At(1, 0), <<Word(1), LinkA>>, 2, Me, user_name, e1.urls, e1.media),
       Item(2, At(0, 59), <<Word(2), LinkA, LinkB>>, NoId, "", "",
            e2.urls \o <<[url |-> LinkB, expanded_url |-> Page]>>, e2.media)>> :
        e1 \in EntityChoices, e2 \in EntityChoices}

\* a thread of two, the reply stored before its root, whose short links
\* start alike
OverlapArchives ==
    {<<Item(1, At(1, 0), <<Word(1), LinkA>>, 2, Me, user_name,
            <<[url |-> LinkA, expanded_url |-> Page]>>, <<>>),
       Item(2, At(0, 59), <<Word(2), LinkAB>>, NoId, "", "",
            <<[url |-> LinkAB, expanded_url |-> Other]>>, <<>>)>>}

StatusUrl == "https://x.com/bob/status/7"

\* extract_tweet_info, lines 196-213: (tweet_id, user) of a status url, or None
extract_tweet_info(url) ==
    CASE url = StatusUrl -> [found |-> TRUE, tweet_id |-> 7, user |-> "bob"]
      [] OTHER -> [found |-> FALSE, tweet_id |-> NoId, user |-> ""]

\* a tweet that quotes another: its link expands to the url of a status
QuoteArchives ==
    {<<Item(1, At(0, 59), <<"see", LinkA>>, NoId, "", "",
            <<[url |-> LinkA, expanded_url |-> StatusUrl]>>, <<>>)>>}

\* single tweets of every kind
UnitItems(i) ==
    {Item(i, At(0, 59), <<"look", LinkA>>, NoId, "", "", <<>>,
          <<[url |-> LinkA, media_url_https |-> Picture]>>),
     Item(i, At(1, 0), <<"@bob", "hi">>, Outside, "other", "bob", <<>>, <<>>),
     Item(i, At(1, 0), <<"hi", "there">>, Outside, "other", "bob", <<>>, <<>>),
     Item(i, At(1, 1), <<"@bob", "hi">>, Outside, "other", "", <<>>, <<>>),
     Item(i, At(1, 1), <<"RT", "@bob", "more", DOTS, LinkA, LinkB>>, NoId, "", "",
          <<[url |-> LinkA, expanded_url |-> Page]>>, <<>>)}

\* ... and an input that holds the same id twice
DuplicateArchives ==
    {<<Item(1, At(0, 59), <<"one">>, NoId, "", "", <<>>, <<>>),
       Item(1, At(1, 0), <<"two">>, NoId, "", "", <<>>, <<>>)>>}

UnitArchives == UNION {ArchivesOf([i \in 1..MaxUnits |-> UnitItems(i)], n) : n \in 1..MaxUnits} \cup DuplicateArchives

KeyOrders == {<<LinkA, LinkB>>, <<LinkB, LinkA>>}

InitRun ==
    /\ \/ InitWith(ThreadArchives) /\ api = ModelAPI(FALSE, max_reqs) /\ key_order = <<LinkA, LinkB>>
       \/ InitWith(MergeArchives) /\ api = ModelAPI(FALSE, max_reqs) /\ key_order \in KeyOrders
       \/ InitWith(QuoteArchives) /\ api = ModelAPI(FALSE, max_reqs) /\ key_order = <<LinkA, LinkB>>
       \/ /\ InitWith(OverlapArchives)
          /\ api = ModelAPI(FALSE, max_reqs)
          /\ key_order \in {<<LinkA, LinkAB>>, <<LinkAB, LinkA>>}
       \/ /\ InitWith(UnitArchives)
          /\ api \in {ModelAPI(enabled, max_reqs) : enabled \in BOOLEAN}
          /\ key_order = <<LinkA, LinkB>>

Next ==
    \/ Ingest
    \/ BuildGraph
    \/ ClassifyFirstPass
    \/ PromoteBegin
    \/ FindThreadRootStep
    \/ PromoteChain
    \/ BuildReplacements
    \/ Gather
    \/ ConvertStart
    \/ \E t \in DOMAIN tasks : ApiSend(t)
    \/ \E t \in DOMAIN tasks, response \in Responses : ApiResponse(t, response)
    \/ \E t \in DOMAIN tasks, fetch \in Fetches : DownloadDone(t, fetch)
    \/ GatherDone
    \/ GatherRaise

Spec == InitRun /\ [][Next]_vars

---------------------------------------------------------------------------
(* The reply structure as the archive gives it, for stating the claims     *)

DataParent(data, c) ==
    {p \in Ids(data) : \E i \in 1..Len(data) :
        data[i].id_str = c /\ data[i].in_reply_to_status_id_str = p}

RECURSIVE DataDescendants(_, _, _)
DataDescendants(data, from, n) ==
    IF n = 0 THEN from
    ELSE DataDescendants(data, from \cup {c \in Ids(data) : DataParent(data, c) \cap from # {}}, n - 1)

\* the chain of a root: all that is reachable from it along parent -> child
DataChain(data, r) == DataDescendants(data, {r}, Len(data))

DataItem(data, id) == data[CHOOSE i \in 1..Len(data) : data[i].id_str = id]

BodyStartsAsRetweet(item) ==
    LET body == strip(item.full_text) IN SubSeq(body, 1, 1) = <<"RT">> /\ Len(body) > 1 /\ body[2] \in Handles

\* the kind pass 1 owes an item: a function of body_text and "has a reply_to_id"
PassOneKind(item) ==
    CASE BodyStartsAsRetweet(item) -> "Retweet"
      [] ~BodyStartsAsRetweet(item) /\ item.in_reply_to_status_id_str # NoId -> "Reply"
      [] OTHER -> "Post"

---------------------------------------------------------------------------
(* C4: if the reply graph holds a cycle (a tweet replying to itself          *)
(* included), root finding detects it and fails fast with a fatal error:    *)
(* a walk of find_thread_root that is back on a tweet it already left has   *)
(* ended the run, and never continues round the cycle.                      *)
CycleFailsFast ==
    (\E i, j \in 1..Len(walk) : i < j /\ walk[i] = walk[j]) => pc = "aborted"

(* C9: after classify_tweets a tweet is a Thread only if it is in the chain  *)
(* of a root that has no parent, that pass 1 classified Post, and whose     *)
(* chain has more than one tweet.                                           *)
ThreadOnlyInPostRootedChain ==
    pc \in {"classify2", "find_thread_root", "promote", "resolve"} =>
        \A t \in DOMAIN tweet_map :
            tweet_map[t].type = "Thread" =>
                \E r \in Ids(tweets_data) :
                    /\ t \in DataChain(tweets_data, r)
                    /\ DataParent(tweets_data, r) = {}
                    /\ PassOneKind(DataItem(tweets_data, r)) = "Post"
                    /\ Cardinality(DataChain(tweets_data, r)) > 1

\* classification is over and has promoted a chain: a root and the replies to it
ThreadPromoted ==
    /\ pc = "resolve"
    /\ \E r, t \in DOMAIN tweet_map :
          /\ r # t
          /\ tweet_map[r].type = "Thread" /\ tweet_map[t].type = "Thread"
          /\ tweet_map[r].in_reply_to_status_id_str = NoId
          /\ tweet_map[t].in_reply_to_status_id_str = r

(* C10: pass 1 gives every tweet the kind its body text and the presence of *)
(* a reply_to_id decide: Retweet for a body starting with the retweet       *)
(* marker (also for a reply with reply edges), else Reply with a            *)
(* reply_to_id, else Post; whatever the graph and the visiting order.       *)
PassOneIsPureInTextAndReplyTo ==
    /\ pc = "classify1" =>
          \A i \in 1..Len(order) : i < idx =>
              tweet_map[order[i]].type = PassOneKind(DataItem(tweets_data, order[i]))
    /\ pc = "classify2" /\ idx = 1 =>
          \A t \in DOMAIN tweet_map : tweet_map[t].type = PassOneKind(DataItem(tweets_data, t))

\* pass 1 is over and called a reply that has a parent and a child a Retweet
RetweetWithReplyEdges ==
    /\ pc = "classify2"
    /\ \E t \in DOMAIN tweet_map :
          /\ tweet_map[t].type = "Retweet"
          /\ tweet_map[t].in_reply_to_status_id_str \in DOMAIN tweet_map \ {t}
          /\ predecessors(reply_graph, t) # {}
          /\ successors(reply_graph, t) # <<>>

IsThreadRoot(t) ==
    /\ tweet_map[t].type = "Thread"
    /\ predecessors(reply_graph, t) = {}

Members(r) == Range(dfs_preorder_nodes(reply_graph, r))

\* the next step of the run is the first step of the coroutine of thread root r
RootStartsNext(r) ==
    /\ pc = "gather"
    /\ idx <= Len(order)
    /\ order[idx] = r
    /\ IsThreadRoot(r)

(* C1: thread reconstruction is over before any unit of the fan-out starts, *)
(* so when the merge of a thread root runs, every field it reads from a      *)
(* member (its text to render, its replacement map) has been written,        *)
(* whatever the order of the tweets in the input.                            *)
MergeReadsWrittenFields ==
    \A r \in DOMAIN tweet_map :
        RootStartsNext(r) =>
            \A t \in Members(r) \ {r} : tweet_map[t].mark_down # Unset

TimeNotAfter(a, b) == a.min < b.min \/ (a.min = b.min /\ a.sec <= b.sec)

IsWordOf(w, ids) == \E i \in ids : w = Word(i)

\* the tweets whose words a body holds, in the order of the body
SegmentIds(body, ids) ==
    LET words == SelectSeq(body, LAMBDA w : IsWordOf(w, ids))
    IN  [k \in 1..Len(words) |-> CHOOSE i \in ids : words[k] = Word(i)]

ThreadDocs == {d \in Range(docs) : d[2].unit # NoId /\ "body" \in DOMAIN d[2]
                                    /\ tweet_map[d[2].unit].type = "Thread"}

(* C2: the merged body of a thread is the concatenation of its members'     *)
(* texts, each once, in an order that is non-decreasing by source creation  *)
(* timestamp, whatever the traversal order and the order of the store.      *)
MergedBodyInTimestampOrder ==
    \A d \in ThreadDocs :
        LET r == d[2].unit
            ids == SegmentIds(d[2].body, Ids(tweets_data))
        IN  /\ Range(ids) = DataChain(tweets_data, r)
            /\ Len(ids) = Cardinality(DataChain(tweets_data, r))
            /\ \A k \in 1..(Len(ids) - 1) :
                  TimeNotAfter(DataItem(tweets_data, ids[k]).created_at,
                               DataItem(tweets_data, ids[k + 1]).created_at)

\* a thread of three was written whose body starts with a reply, not the root,
\* and whose replies stand in the body against their order in the store
ThreadMergedAgainstTraversal ==
    \E d \in ThreadDocs :
        LET ids == SegmentIds(d[2].body, Ids(tweets_data))
        IN  /\ Len(ids) >= 3
            /\ ids[1] # d[2].unit
            /\ \E j, k \in 1..Len(ids) : j < k /\ ids[j] > ids[k] /\ ids[j] # d[2].unit

\* two members of r's chain hold the same short link with entries that differ
\* in a sub-field, a sub-field only one of them has included
MembersDiffer(r) ==
    \E m1, m2 \in Members(r) :
        \E k \in Keys(tweet_map[m1].replacements) \cap Keys(tweet_map[m2].replacements) :
            Get(tweet_map[m1].replacements, k) # Get(tweet_map[m2].replacements, k)

(* C3: when two replacement maps being merged hold the same short link and  *)
(* the entries differ in any sub-field (one that only one of them has        *)
(* included), merge_replacements fails with the Conflict error: the root's  *)
(* unit raises it, and writes no document.                                   *)
DifferingEntriesConflict ==
    [][\A r \in DOMAIN tweet_map :
          RootStartsNext(r) /\ MembersDiffer(r) =>
              /\ tasks'[r].pc = "raised"
              /\ tasks'[r].exc = "ValueError: Conflict"
              /\ docs' = docs]_vars

Failed(fetched) == SelectSeq(fetched, LAMBDA f : f[2] # "saved")

(* C5: for every media token whose download fails, in any way (not found,   *)
(* another error status, a transport error or a timeout), the unit's         *)
(* download-failure counter goes up by exactly 1, the token is rendered as  *)
(* a link to the asset's expanded URL, not to the local file name, and the  *)
(* run continues.                                                            *)
EveryFailedDownloadCounted ==
    \A t \in DOMAIN tasks :
        /\ tasks[t].download_failed = Len(Failed(tasks[t].fetched))
        /\ tasks[t].fetched # <<>> => tasks[t].pc # "raised"
        /\ \A k \in 1..Len(Failed(tasks[t].fetched)) :
              LET url == Failed(tasks[t].fetched)[k][1]
                  replacement == Get(tweet_map[t].replacements, url)
              IN  /\ "![" \o url \o "](" \o replacement.expanded \o ")" \in Range(tweet_map[t].mark_down)
                  /\ \A w \in Range(tweet_map[t].mark_down) :
                        w # "![" \o replacement.expanded \o "](" \o replacement.media_filename \o ")"

FatalConditions == {"AssertionError: duplicate id", "ValueError: Conflict"}

(* C6: the run ends early only on one of the fatal conditions (a duplicate  *)
(* id or a count mismatch on ingest, a cycle of the reply graph, a conflict *)
(* of replacement maps); nothing else a tweet or a collaborator holds        *)
(* raises an error that ends it.                                             *)
OnlyFatalConditionsAbort ==
    pc = "aborted" => error \in FatalConditions

BeforeFrontmatter ==
    {"ValueError: Conflict", "KeyError: mark_down",
     "AssertionError: First word and then rest expected",
     "AssertionError: First word should be a handle"}

\* the unit came to build_frontmatter and is through with the service,
\* which never gave it a valid response
ServiceGaveNothing(t) ==
    /\ tasks[t].pc \in {"download", "done", "raised"}
    /\ tasks[t].exc \notin BeforeFrontmatter
    /\ tasks[t].valid_at = 0

(* C7: when every attempt at the service fails or returns an invalid        *)
(* response, or the service is not configured, the unit gets the fallback   *)
(* metadata (the post's timestamp as title, the timestamp-derived storage   *)
(* name as slug, draft true) and its metadata-failure counter is 1.         *)
FallbackWhenServiceGivesNothing ==
    \A t \in DOMAIN tasks :
        ServiceGaveNothing(t) =>
            /\ tasks[t].api_failed = 1
            /\ tasks[t].frontmatter # NoName
            /\ tasks[t].frontmatter.draft = TRUE
            /\ tasks[t].frontmatter.title.min = tweet_map[t].created_at.min
            /\ tasks[t].frontmatter.title.sec = tweet_map[t].created_at.sec
            /\ tasks[t].frontmatter.slug = [fmt |-> "name", min |-> tweet_map[t].created_at.min]

\* the unit waits to call the service, or for the answer to a call
Calling(t) == t \in DOMAIN tasks /\ tasks[t].pc \in {"api_send", "api_inflight"}

\* runs with the service in reach: single tweets, and a thread of two whose
\* reply is stored before its root
LiveArchives ==
    UnitArchives \cup
    {<<Item(1, At(1, 0), <<Word(1)>>, 2, Me, user_name, <<>>, <<>>),
       Item(2, At(0, 59), <<Word(2)>>, NoId, "", "", <<>>, <<>>)>>}

InitLive ==
    /\ InitWith(LiveArchives)
    /\ api = ModelAPI(TRUE, max_reqs)
    /\ key_order = <<LinkA, LinkB>>

\* every call and every back-off ends, and the event loop runs what is ready:
\* the run does not stop while a step of it can be taken
SpecLive == InitLive /\ [][Next]_vars /\ WF_vars(Next)

CallBudgetKept ==
    \A t \in DOMAIN tasks :
        /\ tasks[t].calls <= 5
        /\ tasks[t].pc \in {"api_send", "api_inflight"} => tasks[t].calls + tasks[t].retries = 5
        /\ tasks[t].pc = "api_send" => tasks[t].retries > 0
        /\ tasks[t].valid_at # 0 =>
              /\ tasks[t].calls = tasks[t].valid_at
              /\ tasks[t].pc \notin {"api_send", "api_inflight"}

(* C8: for each unit build_frontmatter calls the service at most 5 times,   *)
(* whatever the calls come to, makes no call after the first valid response *)
(* and always terminates: a unit that is calling the service comes to the   *)
(* end of build_frontmatter (or the run has ended on another unit's error). *)
AtMostFiveCallsPerUnit ==
    /\ []CallBudgetKept
    /\ \A t \in 1..MaxUnits : Calling(t) ~> (~Calling(t) \/ pc = "aborted")

\* one unit used all five tries and fell back, another was served at its third
FiveCallsThenFallback ==
    \E t, u \in DOMAIN tasks :
        /\ tasks[t].calls = 5 /\ tasks[t].valid_at = 0 /\ tasks[t].pc = "done"
        /\ tasks[t].api_failed = 1
        /\ tasks[u].valid_at = 3 /\ tasks[u].pc = "done"

---------------------------------------------------------------------------
\* a member of a thread that is not its root, as the archive gives it
ThreadNonRoot(t) ==
    tweet_map[t].type = "Thread" /\ DataParent(tweets_data, t) # {}

\* the documents (not the media files, not the section indexes) unit t wrote
DocsOf(t) == {d \in Range(docs) : "body" \in DOMAIN d[2] /\ d[2].unit = t}

SkippedOrWritten ==
    \A t \in DOMAIN tasks :
        /\ ThreadNonRoot(t) =>
              /\ tasks[t].pc \in {"pending", "returned"}
              /\ tasks[t].mal_formed = 0 /\ tasks[t].download_failed = 0
              /\ tasks[t].api_failed = 0
              /\ DocsOf(t) = {}
        /\ Cardinality(DocsOf(t)) <= 1
        /\ \A d \in DocsOf(t) :
              tweet_map[t].type = "Thread" =>
                  Range(SegmentIds(d[2].body, Ids(tweets_data))) = DataChain(tweets_data, t)
        /\ pc = "done" /\ ~ThreadNonRoot(t) => tasks[t].pc = "done"

\* the step that ends a unit's rendering writes the unit's document
DoneIsWritten ==
    \A t \in DOMAIN tasks :
        tasks[t].pc # "done" /\ tasks'[t].pc = "done" =>
            /\ Has(docs', tasks'[t].content_filepath)
            /\ Get(docs', tasks'[t].content_filepath).unit = t
            /\ Get(docs', tasks'[t].content_filepath).body = tweet_map'[t].mark_down

---------------------------------------------------------------------------
\* runs with the service in reach and a cap on its requests that is below the
\* number of units served at once, ModelAPI(enabled=True, max_reqs=...)
InitCap ==
    /\ InitWith(LiveArchives)
    /\ api = ModelAPI(TRUE, MaxUnits - 1)
    /\ key_order = <<LinkA, LinkB>>

\* the event loop runs what is ready, every request and every back-off ends
SpecCap == InitCap /\ [][Next]_vars /\ WF_vars(Next)

\* unit t waits to enter `async with self.semaphore`
Waiting(t) == t \in DOMAIN tasks /\ tasks[t].pc = "api_send"

\* unit t has a request to the service in flight
Sending(t) == t \in DOMAIN tasks /\ tasks[t].pc = "api_inflight"

CapKept ==
    /\ sem = Cardinality({t \in DOMAIN tasks : Sending(t)})
    /\ sem <= api.max_reqs

(* C12: the number of requests to the service in flight is at most max_reqs *)
(* at every moment, however many units are served at once, and every unit   *)
(* that waits for a place under the cap eventually sends its request (or    *)
(* the run has ended on another unit's error).                              *)
RequestsCapped ==
    /\ []CapKept
    /\ \A t \in 1..MaxUnits : Waiting(t) ~> (Sending(t) \/ pc = "aborted")

\* the cap is reached: as many requests in flight as it allows while another
\* unit waits for its turn
UnitWaitsAtFullCap ==
    /\ pc = "gather"
    /\ sem = api.max_reqs
    /\ \E t \in DOMAIN tasks : Waiting(t) /\ tasks[t].calls = 0

---------------------------------------------------------------------------
\* the orders in which a set of keys can iterate
Orders(keys) == {o \in [1..Len(keys) -> Range(keys)] : Range(o) = Range(keys)}

(* C13: the rendered text of a unit does not depend on the order in which   *)
(* the key set of the merged replacement map iterates: when the task about  *)
(* to start renders its document in one step, the document's text is the    *)
(* same whatever that order.                                                *)
TextAlikeInEveryKeyOrder ==
    pc = "gather" /\ idx <= Len(order) =>
        \A keys \in Orders(key_order) :
            \E this \in {convert_start(order[idx], key_order).unit},
               that \in {convert_start(order[idx], keys).unit} :
                this.task.pc = "done" /\ that.task.pc = "done" => this.md = that.md

---------------------------------------------------------------------------
\* the expansions the resolver recorded for unit t
Expansions(t) ==
    {tweet_map[t].replacements[i][2].expanded : i \in 1..Len(tweet_map[t].replacements)}

(* C14: a short link whose expansion has the shape of a status url          *)
(* {host}/{user}/status/{id} is rendered as the embed directive of that     *)
(* user and id and not as a plain bracketed link, while the replacement map *)
(* records the plain expansion.                                             *)
StatusLinkEmbedded ==
    \A t \in DOMAIN tasks :
        tasks[t].pc = "done" =>
            \A expanded \in Expansions(t) :
                extract_tweet_info(expanded).found =>
                    /\ tweet_shortcode(extract_tweet_info(expanded).tweet_id,
                                       extract_tweet_info(expanded).user)
                           \in Range(tweet_map[t].mark_down)
                    /\ ("<" \o expanded \o ">") \notin Range(tweet_map[t].mark_down)

---------------------------------------------------------------------------
\* unit t has rewritten its text and waits for its first call of the service
Rewritten(t) ==
    /\ tasks[t].pc = "api_send" /\ tasks[t].calls = 0
    /\ tweet_map[t].type # "Thread"
    /\ parse_triple_dot_endings(tweet_map[t].full_text).found

(* C15: when the text of a unit ends with "...", white space and one or     *)
(* more links, the rewritten text ends with a "continue reading" pointer to *)
(* the first of these links, followed by every further link as a line of    *)
(* its own, in their order.                                                 *)
PointerTargetsFirstLink ==
    \A t \in DOMAIN tasks :
        Rewritten(t) =>
            LET parsed == parse_triple_dot_endings(tweet_map[t].full_text)
            IN  tweet_map[t].mark_down =
                    parsed.prefix
                    \o <<DOTS, "[continue reading](" \o Head(parsed.urls) \o ")">>
                    \o standalone_lines(Tail(parsed.urls))

---------------------------------------------------------------------------
\* build_graph has returned
GraphBuilt == pc \notin {"ingest", "build_graph"} /\ DOMAIN tweet_map # {}

\* the replies of the archive to a tweet of the archive, parent -> child
StoredReplies ==
    {<<tweets_data[i].in_reply_to_status_id_str, tweets_data[i].id_str>> :
        i \in {j \in 1..Len(tweets_data) :
                  /\ tweets_data[j].in_reply_to_status_id_str # NoId
                  /\ tweets_data[j].in_reply_to_status_id_str \in Ids(tweets_data)}}

(* C16: after build_graph the nodes of the graph are exactly the ids of the *)
(* store, its edges are exactly reply_to_id(c) -> c for the tweets c of the *)
(* store whose parent is in the store, each once, and every node has at     *)
(* most one parent edge.                                                    *)
GraphIsTheStoredReplies ==
    GraphBuilt =>
        /\ reply_graph.nodes = Ids(tweets_data)
        /\ Range(reply_graph.edges) = StoredReplies
        /\ Cardinality(Range(reply_graph.edges)) = Len(reply_graph.edges)
        /\ \A n \in reply_graph.nodes : Cardinality(predecessors(reply_graph, n)) <= 1

\* a graph with a node that has two children, built from an archive that
\* also holds a reply to a tweet out of the archive
GraphWithForkAndOutsideReply ==
    /\ GraphBuilt
    /\ \E e, f \in Range(reply_graph.edges) : e[1] = f[1] /\ e[2] # f[2]
    /\ \E i \in 1..Len(tweets_data) : tweets_data[i].in_reply_to_status_id_str = Outside

\* the edges of replies that are addressed to the user
OwnReplyEdges ==
    {e \in Range(reply_graph.edges) : tweet_map[e[2]].in_reply_to_user_id = Me}

(* C17: after build_graph a tweet is flagged is_thread if and only if it is *)
(* an end of an edge parent -> child whose child is addressed to the user:  *)
(* both ends of each such edge are flagged and no other tweet is.           *)
FlaggedIffOnOwnReplyEdge ==
    GraphBuilt =>
        \A t \in DOMAIN tweet_map :
            tweet_map[t].is_thread <=> \E e \in OwnReplyEdges : t \in {e[1], e[2]}

\* a reply to the user's own stored tweet and a reply to somebody else's
\* stored tweet: parent and child of the first are flagged, the other reply is not
OwnReplyFlaggedOtherNot ==
    /\ GraphBuilt
    /\ \E e \in OwnReplyEdges : e[1] # e[2] /\ tweet_map[e[1]].is_thread /\ tweet_map[e[2]].is_thread
    /\ \E e \in Range(reply_graph.edges) \ OwnReplyEdges : ~tweet_map[e[2]].is_thread

---------------------------------------------------------------------------
(* C18: for a short link that neither entity list resolves the probe sends  *)
(* a HEAD and falls back to a GET both when the HEAD comes back with a      *)
(* status of 400 or more and when the HEAD fails in the transport; without  *)
(* such a failure of the HEAD only the HEAD is sent; when the transport     *)
(* fails for good the expansion is the short link itself.                   *)
ProbeFallsBackToGet ==
    \A p \in DOMAIN probes :
        /\ probes[p].head \in {"error status", "transport error"} =>
               probes[p].methods = <<"HEAD", "GET">>
        /\ probes[p].head = "final" => probes[p].methods = <<"HEAD">>
        /\ probes[p].head = "transport error" /\ probes[p].get = "transport error" =>
               probes[p].url = p[2]

---------------------------------------------------------------------------
\* the derived fields are first written in the order of the pipeline
InPipelineOrder ==
    \A t \in DOMAIN tweet_map :
        /\ tweet_map[t].is_thread => pc \notin {"ingest", "build_graph"}
        /\ tweet_map[t].type # "" => GraphBuilt
        /\ tweet_map[t].replacements # <<>> => \A u \in DOMAIN tweet_map : tweet_map[u].type # ""
        /\ tweet_map[t].mark_down # Unset => pc \in {"gather", "done", "aborted"}

\* the step is the merge of the thread rooted at t
MergeOf(t) ==
    /\ tweet_map[t].type = "Thread" /\ DataParent(tweets_data, t) = {}
    /\ tasks[t].pc = "pending" /\ tasks'[t].pc # "pending"

\* a derived field that has been written keeps its value
WrittenOnce ==
    \A t \in DOMAIN tweet_map \cap DOMAIN tweet_map' :
        /\ tweet_map[t].type # "" => tweet_map'[t].type = tweet_map[t].type
        /\ tweet_map[t].is_thread => tweet_map'[t].is_thread
        /\ pc \in {"fan_out", "gather"} /\ tweet_map'[t].replacements # tweet_map[t].replacements
              => MergeOf(t)
        /\ tweet_map[t].mark_down # Unset => tweet_map'[t].mark_down = tweet_map[t].mark_down

(* C19: along every run kind, is_thread_candidate, replacement_map and      *)
(* rendered_body of a tweet are first written in the order graph, classify, *)
(* resolve, render, and each is written once: a field that has been        *)
(* written keeps its value, but for the replacement map (and text) of a     *)
(* thread root, which the merge of the thread writes once more.             *)
FieldsWrittenOnceInOrder ==
    /\ []InPipelineOrder
    /\ [][WrittenOnce]_vars

---------------------------------------------------------------------------
\* a step of the fan-out writes the tweet of the unit that takes it and no
\* other; of that tweet it writes the text, and the replacement map when
\* the step is the merge of the thread the tweet is the root of
FrameKept ==
    pc = "gather" =>
        \A u \in DOMAIN tweet_map :
            /\ tasks'[u] = tasks[u] => tweet_map'[u] = tweet_map[u]
            /\ tweet_map'[u] = [tweet_map[u] EXCEPT !.mark_down = tweet_map'[u].mark_down,
                                                    !.replacements = tweet_map'[u].replacements]
            /\ tweet_map'[u].replacements # tweet_map[u].replacements => MergeOf(u)

(* C20: rendering one unit writes no field of another tweet: the merge of a *)
(* thread changes the text and the replacement map of the root only, every  *)
(* member keeps its own text and the replacement map the resolver gave it   *)
(* (the maps handed to merge_replacements are left as they were).           *)
RenderingWritesOwnTweetOnly == [][FrameKept]_vars

\* a thread is merged and rendered: the root holds the union of the maps
\* while its member still holds its own text and its own, smaller map
RootMergedMemberUntouched ==
    \E r, m \in DOMAIN tasks :
        /\ tweet_map[r].type = "Thread" /\ tasks[r].pc = "done"
        /\ ThreadNonRoot(m) /\ m \in DataChain(tweets_data, r)
        /\ tweet_map[m].mark_down = tweet_map[m].full_text
        /\ tweet_map[m].replacements # <<>>
        /\ Len(tweet_map[r].replacements) > Len(tweet_map[m].replacements)

---------------------------------------------------------------------------
(* C21: two units never write the same document: the document a unit has    *)
(* written is still at its path, with that unit's text, in every later      *)
(* state and at the end of the run, also when two tweets of one kind and of *)
(* one minute both take the storage name made of the timestamp.             *)
NoDocumentOverwritten ==
    \A t \in DOMAIN tasks :
        tasks[t].pc = "done" =>
            /\ Has(docs, tasks[t].content_filepath)
            /\ Get(docs, tasks[t].content_filepath).unit = t
            /\ Get(docs, tasks[t].content_filepath).body = tweet_map[t].mark_down

====
